---- MODULE Spec2Model ----
(***************************************************************************)
(* TeamService (apps/auth/src/modules/team/team.service.ts): createTeam,   *)
(* findAll, findOne, updateTeam and deleteTeam over the Team and User      *)
(* tables.  Every `await` of the service is a scheduling point, so each    *)
(* repository call is one step of the calling request.                     *)
(*                                                                         *)
(* Repository semantics.  teamRepository and userRepository are the        *)
(* repositories injected in the constructor; they run every statement on   *)
(* the data source's own manager.  The callback handed to                  *)
(* manager.transaction() at line 59 takes no transactional manager and     *)
(* keeps using the injected repositories, so its writes are not part of    *)
(* the transaction that is opened: each save() commits by itself (a batch  *)
(* save commits as a whole), and the roll back of line 93/94 has nothing   *)
(* to undo.                                                                *)
(***************************************************************************)
EXTENDS Integers, Sequences, FiniteSets, TLC

\* ---------------------------------------------------------------- bounds
\* Longest dto.members list.
MaxMembers == 2
\* Number of createTeam calls (caps the generated team ids).
MaxCreates == 2

\* ------------------------------------------------------------- constants
Procs == {"p1", "p2"}
\* Ids a request may name; only ExistingUsers have a row (user rows are
\* created and removed elsewhere).
UserIds == {"u1", "u2", "u3"}
ExistingUsers == {"u1", "u2"}
Names == {"A", "B"}
Undef == "undefined"
CreateDescs == {"d1"}
UpdateNames == Names \cup {Undef, ""}
UpdateDescs == {Undef, "d2"}
TeamIds == 1..MaxCreates
\* user.team = null
Null == 0

EXTERNAL_SUPER_ADMIN == "EXTERNAL_SUPER_ADMIN"
EXTERNAL_MEMBER == "EXTERNAL_MEMBER"
\* Any role this service never assigns.
OTHER_ROLE == "OTHER"

TEAM_ALREADY_EXISTS == "TEAM_ALREADY_EXISTS"
USER_NOT_FOUND == "USER_NOT_FOUND"
CREATE_TEAM_FAILURE == "CREATE_TEAM_FAILURE"
TEAM_NOT_FOUND == "TEAM_NOT_FOUND"
TEAM_NAME_EXISTS == "TEAM_NAME_EXISTS"
\* The call resolved without throwing.
OK == "OK"
\* A repository error that no catch block of the service handles.
DB_ERROR == "DB_ERROR"
NoResult == "none"

VARIABLES
  teams,      \* Team table: id -> [name, description]
  users,      \* User table: id -> [role, team]
  nextId,     \* next id the Team table generates
  created,    \* createTeam calls started so far
  pc,         \* each request's position
  op,         \* the method each request runs
  dto,        \* its argument
  superAdmin, \* createTeam: const superAdmin
  members,    \* createTeam: let members
  savedTeam,  \* createTeam: const savedTeam (its id)
  team,       \* updateTeam / deleteTeam: const team
  result,     \* how the call ended: OK or the error code thrown
  ret,        \* the value the call resolved to
  pre         \* the tables when the call started

vars == <<teams, users, nextId, created, pc, op, dto, superAdmin, members,
          savedTeam, team, result, ret, pre>>

store == <<teams, users, nextId>>
locals == <<superAdmin, members, savedTeam, team>>

\* ------------------------------------------------------------ data model
NoDto == [name |-> Undef, description |-> Undef, super_admin_user_id |-> Undef,
          members |-> <<>>, id |-> Null]
NoUser == [id |-> Undef, role |-> Undef]
NoTeam == [id |-> Null, name |-> Undef, description |-> Undef, members |-> {}]
Undefined == [defined |-> FALSE]
NoStore == [teams |-> << >>, users |-> << >>]

\* Every sequence over S of length at most n.
SeqsUpTo(S, n) == UNION {[1..k -> S] : k \in 0..n}

MemberLists == SeqsUpTo(UserIds, MaxMembers)
Range(s) == {s[i] : i \in 1..Len(s)}

\* ------------------------------------------------- repository operations
\* A lookup whose where clause matches no row.
FindTeamByNameMiss(ts, name) == NoTeam

\* teamRepository.findOne({ where: { name } })
FindTeamByName(ts, name) ==
  IF \E i \in DOMAIN ts : ts[i].name = name
  THEN LET i == CHOOSE j \in DOMAIN ts : ts[j].name = name
       IN [id |-> i, name |-> ts[i].name, description |-> ts[i].description,
           members |-> {}]
  ELSE NoTeam

\* teamRepository.findOne({ where: { id } })
FindTeamById(ts, id) ==
  IF id \in DOMAIN ts
  THEN [id |-> id, name |-> ts[id].name, description |-> ts[id].description,
        members |-> {}]
  ELSE NoTeam

\* The relation left unloaded.
MembersOfNone(us, id) == {}

\* The members relation: the users whose team column is the team's id.
MembersOf(us, id) ==
  {[id |-> u, role |-> us[u].role] : u \in {v \in DOMAIN us : us[v].team = id}}

\* teamRepository.findOne({ where: { id }, relations: ['members'] })
FindTeamWithMembers(ts, us, id) ==
  IF id \in DOMAIN ts
  THEN [id |-> id, name |-> ts[id].name, description |-> ts[id].description,
        members |-> MembersOf(us, id)]
  ELSE NoTeam

\* userRepository.findOne({ where: { id } })
FindUserById(us, id) ==
  IF id \in DOMAIN us THEN [id |-> id, role |-> us[id].role] ELSE NoUser

\* userRepository.find({ where: { id: In(ids) } }): one entity per matching row.
FindUsersByIds(us, ids) ==
  {[id |-> u, role |-> us[u].role] : u \in Range(ids) \cap DOMAIN us}

\* A table without the unique index.
NameIsFreeUnchecked(ts, name) == TRUE

\* The unique index on team.name.
NameIsFree(ts, name) == \A i \in DOMAIN ts : ts[i].name # name

\* teamRepository.save(team) of a new entity: a row under a generated id.
InsertTeam(ts, id, name, description) ==
  ts @@ (id :> [name |-> name, description |-> description])

\* A save that writes nothing.
SaveUserSkipped(us, e, t) == us

\* userRepository.save(user): the row takes the entity's role and team.
SaveUser(us, e, t) == [us EXCEPT ![e.id] = [role |-> e.role, team |-> t]]

\* A batch update without its where clause: every row takes the batch's
\* role and team.
SaveUsersAll(us, es, t) ==
  [u \in DOMAIN us |-> [role |-> (CHOOSE e \in es : TRUE).role, team |-> t]]

\* userRepository.save(users): all rows in one statement batch.
SaveUsers(us, es, t) ==
  [u \in DOMAIN us |->
     IF \E e \in es : e.id = u
     THEN [role |-> (CHOOSE e \in es : e.id = u).role, team |-> t]
     ELSE us[u]]

\* A remove that deletes nothing.
RemoveTeamKept(ts, id) == ts

\* teamRepository.remove(team)
RemoveTeam(ts, id) == [i \in DOMAIN ts \ {id} |-> ts[i]]

\* --------------------------------------------------------------- requests
Idle(p) == pc[p] = "idle"

Finish(p, code, value) ==
  /\ pc' = [pc EXCEPT ![p] = "done"]
  /\ result' = [result EXCEPT ![p] = code]
  /\ ret' = [ret EXCEPT ![p] = value]

Goto(p, label) ==
  /\ pc' = [pc EXCEPT ![p] = label]
  /\ UNCHANGED <<result, ret>>

Begin(p, method, arg, label) ==
  /\ pc' = [pc EXCEPT ![p] = label]
  /\ op' = [op EXCEPT ![p] = method]
  /\ dto' = [dto EXCEPT ![p] = arg]
  /\ pre' = [pre EXCEPT ![p] = [teams |-> teams, users |-> users]]
  /\ UNCHANGED <<store, locals, result, ret>>

\* A caller invokes createTeam(dto).
CallCreateTeam(p) ==
  /\ Idle(p)
  /\ created < MaxCreates
  /\ created' = created + 1
  /\ \E n \in Names, d \in CreateDescs, a \in UserIds, ms \in MemberLists :
       Begin(p, "createTeam",
             [NoDto EXCEPT !.name = n, !.description = d,
                           !.super_admin_user_id = a, !.members = ms],
             "c_findName")

\* lines 22-31
CreateFindName(p) ==
  /\ pc[p] = "c_findName"
  /\ LET existingTeam == FindTeamByName(teams, dto[p].name)
     IN IF existingTeam # NoTeam
        THEN Finish(p, TEAM_ALREADY_EXISTS, Undefined)
        ELSE Goto(p, "c_findAdmin")
  /\ UNCHANGED <<store, created, op, dto, locals, pre>>

\* lines 33-41
CreateFindAdmin(p) ==
  /\ pc[p] = "c_findAdmin"
  /\ LET found == FindUserById(users, dto[p].super_admin_user_id)
     IN IF found = NoUser
        THEN /\ Finish(p, USER_NOT_FOUND, Undefined)
             /\ UNCHANGED superAdmin
        ELSE /\ Goto(p, IF Len(dto[p].members) > 0 THEN "c_findMembers"
                        ELSE "c_saveTeam")
             /\ superAdmin' = [superAdmin EXCEPT ![p] = found]
  /\ UNCHANGED <<store, created, op, dto, members, savedTeam, team, pre>>

\* The count comparison left out.
CountMismatchIgnored(found, requested) == FALSE

\* line 50
CountMismatch(found, requested) == Cardinality(found) # Len(requested)

\* lines 43-55
CreateFindMembers(p) ==
  /\ pc[p] = "c_findMembers"
  /\ LET found == FindUsersByIds(users, dto[p].members)
     IN IF CountMismatch(found, dto[p].members)
        THEN /\ Finish(p, USER_NOT_FOUND, Undefined)
             /\ UNCHANGED members
        ELSE /\ Goto(p, "c_saveTeam")
             /\ members' = [members EXCEPT ![p] = found]
  /\ UNCHANGED <<store, created, op, dto, superAdmin, savedTeam, team, pre>>

\* lines 94-102: whatever the callback throws is rethrown as
\* CREATE_TEAM_FAILURE; the transaction rolled back holds none of the writes.
CreateCatch(p) == Finish(p, CREATE_TEAM_FAILURE, Undefined)

\* lines 59-66: the insert fails on a duplicate name or on a storage error.
CreateSaveTeam(p) ==
  /\ pc[p] = "c_saveTeam"
  /\ \E storageError \in BOOLEAN :
       IF storageError \/ ~NameIsFree(teams, dto[p].name)
       THEN /\ CreateCatch(p)
            /\ UNCHANGED <<store, savedTeam>>
       ELSE /\ teams' = InsertTeam(teams, nextId, dto[p].name, dto[p].description)
            /\ nextId' = nextId + 1
            /\ savedTeam' = [savedTeam EXCEPT ![p] = nextId]
            /\ Goto(p, "c_saveAdmin")
            /\ UNCHANGED users
  /\ UNCHANGED <<created, op, dto, superAdmin, members, team, pre>>

\* lines 68-71
CreateSaveAdmin(p) ==
  /\ pc[p] = "c_saveAdmin"
  /\ LET admin == [superAdmin[p] EXCEPT !.role = EXTERNAL_SUPER_ADMIN]
     IN /\ superAdmin' = [superAdmin EXCEPT ![p] = admin]
        /\ \E storageError \in BOOLEAN :
             IF storageError
             THEN /\ CreateCatch(p)
                  /\ UNCHANGED users
             ELSE /\ users' = SaveUser(users, admin, savedTeam[p])
                  /\ Goto(p, IF members[p] # {} THEN "c_saveMembers"
                             ELSE "c_reread")
  /\ UNCHANGED <<teams, nextId, created, op, dto, members, savedTeam, team, pre>>

\* lines 75-78: the roles the member entities are given.
MemberEntities(ms) == {[m EXCEPT !.role = EXTERNAL_MEMBER] : m \in ms}

\* lines 73-80
CreateSaveMembers(p) ==
  /\ pc[p] = "c_saveMembers"
  /\ LET batch == MemberEntities(members[p])
     IN /\ members' = [members EXCEPT ![p] = batch]
        /\ \E storageError \in BOOLEAN :
             IF storageError
             THEN /\ CreateCatch(p)
                  /\ UNCHANGED users
             ELSE /\ users' = SaveUsers(users, batch, savedTeam[p])
                  /\ Goto(p, "c_reread")
  /\ UNCHANGED <<teams, nextId, created, op, dto, superAdmin, savedTeam, team, pre>>

\* lines 59 and 103: the object the callback returns (lines 88-92) is the
\* value of the awaited transaction(), which createTeam drops; the method
\* ends without a return statement.
CreateTeamReturn(callbackValue) == Undefined

\* lines 82-93, 103
CreateReread(p) ==
  /\ pc[p] = "c_reread"
  /\ LET teamWithMembers == FindTeamWithMembers(teams, users, savedTeam[p])
     IN Finish(p, OK,
               CreateTeamReturn([defined |-> TRUE, success |-> TRUE,
                                 data |-> teamWithMembers]))
  /\ UNCHANGED <<store, created, op, dto, locals, pre>>

\* A findOne without the null test of line 117.
FindOneUnchecked(ts, us, id) ==
  [error |-> OK, value |-> FindTeamWithMembers(ts, us, id)]

\* findOne(id), lines 111-124
FindOne(ts, us, id) ==
  LET found == FindTeamWithMembers(ts, us, id)
  IN IF found = NoTeam
     THEN [error |-> TEAM_NOT_FOUND, value |-> NoTeam]
     ELSE [error |-> OK, value |-> found]

\* findAll(), lines 105-109
FindAll(ts, us) == {FindTeamWithMembers(ts, us, i) : i \in DOMAIN ts}

\* A caller invokes findOne(id).
CallFindOne(p) ==
  /\ Idle(p)
  /\ \E i \in TeamIds : Begin(p, "findOne", [NoDto EXCEPT !.id = i], "f_find")
  /\ UNCHANGED created

\* lines 111-124
FindOneStep(p) ==
  /\ pc[p] = "f_find"
  /\ LET found == FindOne(teams, users, dto[p].id)
     IN IF found.error # OK
        THEN Finish(p, found.error, Undefined)
        ELSE Finish(p, OK, [defined |-> TRUE, data |-> found.value])
  /\ UNCHANGED <<store, created, op, dto, locals, pre>>

\* A caller invokes findAll().
CallFindAll(p) ==
  /\ Idle(p)
  /\ Begin(p, "findAll", NoDto, "a_find")
  /\ UNCHANGED created

\* lines 105-109
FindAllStep(p) ==
  /\ pc[p] = "a_find"
  /\ Finish(p, OK, [defined |-> TRUE, data |-> FindAll(teams, users)])
  /\ UNCHANGED <<store, created, op, dto, locals, pre>>

\* A caller invokes updateTeam(dto).
CallUpdateTeam(p) ==
  /\ Idle(p)
  /\ \E i \in TeamIds, n \in UpdateNames, d \in UpdateDescs :
       Begin(p, "updateTeam",
             [NoDto EXCEPT !.id = i, !.name = n, !.description = d],
             "u_find")
  /\ UNCHANGED created

\* A test that takes every name for absent.
TruthyNever(s) == FALSE

\* JavaScript truthiness of an optional string.
Truthy(s) == s # Undef /\ s # ""

\* lines 147-149: the fields are assigned on the fetched entity.
UpdatedEntity(t, d) ==
  [t EXCEPT !.name = IF Truthy(d.name) THEN d.name ELSE @,
            !.description = IF d.description # Undef THEN d.description ELSE @]

\* The entity handed to teamRepository.save after the assignments.
TeamsAfterUpdateSaved(ts, t) ==
  [ts EXCEPT ![t.id] = [name |-> t.name, description |-> t.description]]

\* lines 147-150: the method ends after the assignments; the entity is not
\* handed to teamRepository.save, so the table keeps its rows.
TeamsAfterUpdate(ts, t) == ts

\* lines 147-150
UpdateApply(p, t) ==
  /\ team' = [team EXCEPT ![p] = UpdatedEntity(t, dto[p])]
  /\ teams' = TeamsAfterUpdate(teams, UpdatedEntity(t, dto[p]))
  /\ Finish(p, OK, Undefined)

\* lines 127-135
UpdateFind(p) ==
  /\ pc[p] = "u_find"
  /\ LET found == FindTeamById(teams, dto[p].id)
     IN IF found = NoTeam
        THEN /\ Finish(p, TEAM_NOT_FOUND, Undefined)
             /\ UNCHANGED <<team, teams>>
        ELSE IF Truthy(dto[p].name) /\ dto[p].name # found.name
             THEN /\ team' = [team EXCEPT ![p] = found]
                  /\ Goto(p, "u_checkName")
                  /\ UNCHANGED teams
             ELSE UpdateApply(p, found)
  /\ UNCHANGED <<users, nextId, created, op, dto, superAdmin, members,
                 savedTeam, pre>>

\* lines 136-145
UpdateCheckName(p) ==
  /\ pc[p] = "u_checkName"
  /\ LET existingTeam == FindTeamByName(teams, dto[p].name)
     IN IF existingTeam # NoTeam
        THEN /\ Finish(p, TEAM_NAME_EXISTS, Undefined)
             /\ UNCHANGED <<team, teams>>
        ELSE UpdateApply(p, team[p])
  /\ UNCHANGED <<users, nextId, created, op, dto, superAdmin, members,
                 savedTeam, pre>>

\* A caller invokes deleteTeam(id).
CallDeleteTeam(p) ==
  /\ Idle(p)
  /\ \E i \in TeamIds : Begin(p, "deleteTeam", [NoDto EXCEPT !.id = i], "d_find")
  /\ UNCHANGED created

\* line 153; `members` holds the entities the loop of line 156 has yet to visit.
DeleteFind(p) ==
  /\ pc[p] = "d_find"
  /\ LET found == FindOne(teams, users, dto[p].id)
     IN IF found.error # OK
        THEN /\ Finish(p, found.error, Undefined)
             /\ UNCHANGED <<team, members>>
        ELSE /\ team' = [team EXCEPT ![p] = found.value]
             /\ members' = [members EXCEPT ![p] = found.value.members]
             /\ Goto(p, IF found.value.members # {} THEN "d_detach" ELSE "d_remove")
  /\ UNCHANGED <<store, created, op, dto, superAdmin, savedTeam, pre>>

\* lines 156-159, one iteration; the relation is loaded in no stated order.
\* An error of save() is not caught: it ends the call.
DeleteDetach(p) ==
  /\ pc[p] = "d_detach"
  /\ \E member \in members[p], storageError \in BOOLEAN :
       IF storageError
       THEN /\ Finish(p, DB_ERROR, Undefined)
            /\ UNCHANGED <<users, members>>
       ELSE /\ users' = SaveUser(users, member, Null)
            /\ members' = [members EXCEPT ![p] = @ \ {member}]
            /\ Goto(p, IF members[p] = {member} THEN "d_remove" ELSE "d_detach")
  /\ UNCHANGED <<teams, nextId, created, op, dto, superAdmin, savedTeam, team, pre>>

\* lines 161-163
DeleteRemove(p) ==
  /\ pc[p] = "d_remove"
  /\ \E storageError \in BOOLEAN :
       IF storageError
       THEN /\ Finish(p, DB_ERROR, Undefined)
            /\ UNCHANGED teams
       ELSE /\ teams' = RemoveTeam(teams, team[p].id)
            /\ Finish(p, OK, Undefined)
  /\ UNCHANGED <<users, nextId, created, op, dto, locals, pre>>

\* The caller has its answer; the request's locals go out of scope.
Return(p) ==
  /\ pc[p] = "done"
  /\ pc' = [pc EXCEPT ![p] = "idle"]
  /\ op' = [op EXCEPT ![p] = NoResult]
  /\ dto' = [dto EXCEPT ![p] = NoDto]
  /\ superAdmin' = [superAdmin EXCEPT ![p] = NoUser]
  /\ members' = [members EXCEPT ![p] = {}]
  /\ savedTeam' = [savedTeam EXCEPT ![p] = Null]
  /\ team' = [team EXCEPT ![p] = NoTeam]
  /\ result' = [result EXCEPT ![p] = NoResult]
  /\ ret' = [ret EXCEPT ![p] = Undefined]
  /\ pre' = [pre EXCEPT ![p] = NoStore]
  /\ UNCHANGED <<store, created>>

\* The tables a deployment may start with: empty, or holding the team that
\* createTeam({name: "A", super_admin_user_id: "u1", members: ["u2"]}) leaves.
EmptyStore ==
  [teams |-> << >>,
   users |-> [u \in ExistingUsers |-> [role |-> OTHER_ROLE, team |-> Null]],
   created |-> 0]
SeededStore ==
  [teams |-> (1 :> [name |-> "A", description |-> "d1"]),
   users |-> ("u1" :> [role |-> EXTERNAL_SUPER_ADMIN, team |-> 1]) @@
             ("u2" :> [role |-> EXTERNAL_MEMBER, team |-> 1]),
   created |-> 1]
InitialStores == {EmptyStore, SeededStore}

Init ==
  /\ \E s \in InitialStores :
       /\ teams = s.teams
       /\ users = s.users
       /\ created = s.created
       /\ nextId = s.created + 1
  /\ pc = [p \in Procs |-> "idle"]
  /\ op = [p \in Procs |-> NoResult]
  /\ dto = [p \in Procs |-> NoDto]
  /\ superAdmin = [p \in Procs |-> NoUser]
  /\ members = [p \in Procs |-> {}]
  /\ savedTeam = [p \in Procs |-> Null]
  /\ team = [p \in Procs |-> NoTeam]
  /\ result = [p \in Procs |-> NoResult]
  /\ ret = [p \in Procs |-> Undefined]
  /\ pre = [p \in Procs |-> NoStore]

Call(p) ==
  \/ CallCreateTeam(p)
  \/ CallUpdateTeam(p)
  \/ CallDeleteTeam(p)
  \/ CallFindOne(p)
  \/ CallFindAll(p)

Step(p) ==
  \/ CreateFindName(p)
  \/ CreateFindAdmin(p)
  \/ CreateFindMembers(p)
  \/ CreateSaveTeam(p)
  \/ CreateSaveAdmin(p)
  \/ CreateSaveMembers(p)
  \/ CreateReread(p)
  \/ UpdateFind(p)
  \/ UpdateCheckName(p)
  \/ DeleteFind(p)
  \/ DeleteDetach(p)
  \/ DeleteRemove(p)
  \/ FindOneStep(p)
  \/ FindAllStep(p)

\* Two requests served concurrently: each `await` lets the other request run.
Next == \E p \in Procs : Call(p) \/ Step(p)

Spec == Init /\ [][Next]_vars

\* Requests served one after the other: a call starts only when no other
\* request is in progress, and a request slot is reused once its caller has
\* the answer.
Solo(p) == \A q \in Procs \ {p} : Idle(q)

NextSeq == \E p \in Procs : (Solo(p) /\ Call(p)) \/ Step(p) \/ Return(p)

SpecSeq == Init /\ [][NextSeq]_vars

\* Sequential requests against tables that start empty.
InitFresh == Init /\ teams = EmptyStore.teams /\ users = EmptyStore.users

SpecFresh == InitFresh /\ [][NextSeq]_vars

\* ------------------------------------------------------------ properties
Done(p, method) == pc[p] = "done" /\ op[p] = method
StoreAsBefore(p) == teams = pre[p].teams /\ users = pre[p].users
NameTaken(ts, name) == \E i \in DOMAIN ts : ts[i].name = name
Listed(p) == Range(dto[p].members)

\* C1: a createTeam that ends in CREATE_TEAM_FAILURE (a save of its mutation
\* phase failed) leaves the tables exactly as they were when it was called.
C1_FailedCreateLeavesNoTrace ==
  \A p \in Procs :
    Done(p, "createTeam") /\ result[p] = CREATE_TEAM_FAILURE => StoreAsBefore(p)

\* C2: no two rows of the Team table have the same name, in every state of
\* every interleaving of concurrent requests.
C2_TeamNamesUnique ==
  \A i, j \in DOMAIN teams : teams[i].name = teams[j].name => i = j

\* C2 witness: a createTeam passed its name lookup, another request inserted
\* that name meanwhile, and the first one's insert was refused.
C2_RaceOnName ==
  \E p, q \in Procs :
    /\ p # q
    /\ Done(p, "createTeam") /\ result[p] = CREATE_TEAM_FAILURE
    /\ savedTeam[p] = Null
    /\ op[q] = "createTeam" /\ dto[q].name = dto[p].name
    /\ savedTeam[q] \in DOMAIN teams
    /\ ~NameTaken(pre[p].teams, dto[p].name)

\* C3: after a successful createTeam the admin is EXTERNAL_SUPER_ADMIN of the
\* new team, every other listed member is EXTERNAL_MEMBER of it, and the
\* team's members are exactly the admin and the listed members.
C3_CreatePostcondition ==
  \A p \in Procs :
    Done(p, "createTeam") /\ result[p] = OK =>
      LET t == savedTeam[p]
          a == dto[p].super_admin_user_id
      IN /\ users[a] = [role |-> EXTERNAL_SUPER_ADMIN, team |-> t]
         /\ \A m \in Listed(p) \ {a} :
              users[m] = [role |-> EXTERNAL_MEMBER, team |-> t]
         /\ {u \in DOMAIN users : users[u].team = t} = {a} \cup Listed(p)

\* C4: a successful createTeam resolves to the success object carrying the
\* new team re-read with its members, never to undefined.
C4_CreateReturnsTeam ==
  \A p \in Procs :
    Done(p, "createTeam") /\ result[p] = OK =>
      ret[p] = [defined |-> TRUE, success |-> TRUE,
                data |-> FindTeamWithMembers(teams, users, savedTeam[p])]

\* C5: a createTeam called while a team of that name exists fails with
\* TEAM_ALREADY_EXISTS, whatever the admin and members, and changes no row.
C5_DuplicateNameRejected ==
  \A p \in Procs :
    Done(p, "createTeam") /\ NameTaken(pre[p].teams, dto[p].name) =>
      result[p] = TEAM_ALREADY_EXISTS /\ StoreAsBefore(p)

\* C5 witness: a second createTeam with a taken name has been rejected.
C5_Rejected ==
  \E p \in Procs :
    /\ Done(p, "createTeam") /\ NameTaken(pre[p].teams, dto[p].name)
    /\ result[p] = TEAM_ALREADY_EXISTS

\* C6: with a free name, a createTeam whose admin id or one of whose member
\* ids has no user row fails with USER_NOT_FOUND and changes no row.
C6_MissingUserRejected ==
  \A p \in Procs :
    /\ Done(p, "createTeam")
    /\ ~NameTaken(pre[p].teams, dto[p].name)
    /\ \/ dto[p].super_admin_user_id \notin DOMAIN pre[p].users
       \/ \E m \in Listed(p) : m \notin DOMAIN pre[p].users
    => result[p] = USER_NOT_FOUND /\ StoreAsBefore(p)

\* C6 witness: the admin exists, one of two listed members does not, and the
\* call has been rejected.
C6_RejectedForMember ==
  \E p \in Procs :
    /\ Done(p, "createTeam") /\ result[p] = USER_NOT_FOUND
    /\ dto[p].super_admin_user_id \in DOMAIN users
    /\ Len(dto[p].members) = 2
    /\ \E m \in Listed(p) : m \in DOMAIN users
    /\ \E m \in Listed(p) : m \notin DOMAIN users

\* C7: right after a successful createTeam the new team has exactly one
\* EXTERNAL_SUPER_ADMIN member, the user named by super_admin_user_id, also
\* when that id is among dto.members.
C7_ExactlyOneSuperAdmin ==
  \A p \in Procs :
    Done(p, "createTeam") /\ result[p] = OK =>
      {u \in DOMAIN users : /\ users[u].team = savedTeam[p]
                            /\ users[u].role = EXTERNAL_SUPER_ADMIN}
        = {dto[p].super_admin_user_id}

\* C8: after a deleteTeam(id) of an existing team that ends without error,
\* every user that was a member has team null, the row is gone and findOne(id)
\* fails with TEAM_NOT_FOUND.
C8_DeleteDetachesAndRemoves ==
  \A p \in Procs :
    Done(p, "deleteTeam") /\ result[p] = OK /\ dto[p].id \in DOMAIN pre[p].teams =>
      /\ \A u \in DOMAIN users :
           pre[p].users[u].team = dto[p].id => users[u].team = Null
      /\ dto[p].id \notin DOMAIN teams
      /\ FindOne(teams, users, dto[p].id).error = TEAM_NOT_FOUND

\* C8 witness: a team with two members has been deleted.
C8_DeletedWithMembers ==
  \E p \in Procs :
    /\ Done(p, "deleteTeam") /\ result[p] = OK
    /\ Cardinality({u \in DOMAIN users : pre[p].users[u].team = dto[p].id}) = 2

\* C9: updateTeam of an existing team to a name that differs from its own and
\* that another team has fails with TEAM_NAME_EXISTS, and the team's stored
\* name and description stay as they were.
C9_RenameCollisionRejected ==
  \A p \in Procs :
    /\ Done(p, "updateTeam")
    /\ dto[p].id \in DOMAIN pre[p].teams
    /\ dto[p].name # pre[p].teams[dto[p].id].name
    /\ \E j \in DOMAIN pre[p].teams \ {dto[p].id} :
         pre[p].teams[j].name = dto[p].name
    => /\ result[p] = TEAM_NAME_EXISTS
       /\ dto[p].id \in DOMAIN teams
       /\ teams[dto[p].id] = pre[p].teams[dto[p].id]

\* C9 witness: a rename to another team's name has been rejected.
C9_Rejected ==
  \E p \in Procs :
    /\ Done(p, "updateTeam") /\ result[p] = TEAM_NAME_EXISTS
    /\ \E j \in DOMAIN teams \ {dto[p].id} : teams[j].name = dto[p].name

\* C10: updateTeam changes no row: whatever its input and outcome, every team
\* and user row is as before the call, and findOne(id) answers as before.
C10_UpdatePersistsNothing ==
  \A p \in Procs :
    Done(p, "updateTeam") =>
      /\ StoreAsBefore(p)
      /\ FindOne(teams, users, dto[p].id)
           = FindOne(pre[p].teams, pre[p].users, dto[p].id)

\* C10 witness: an updateTeam has succeeded with a new name and a new
\* description assigned on its entity.
C10_UpdatedInMemoryOnly ==
  \E p \in Procs :
    /\ Done(p, "updateTeam") /\ result[p] = OK
    /\ team[p].name # pre[p].teams[dto[p].id].name
    /\ team[p].description # pre[p].teams[dto[p].id].description

\* The members findOne and findAll must report for team i of tables b.
MemberIdsBefore(b, i) == {u \in DOMAIN b.users : b.users[u].team = i}

\* C11: findOne(id) fails with TEAM_NOT_FOUND exactly when no row has that
\* id and otherwise returns that team with its members; findAll() returns
\* every team (nothing on empty tables); neither changes a team or user row.
C11_ReadsAnswerAndChangeNothing ==
  \A p \in Procs :
    /\ Done(p, "findOne") =>
         /\ StoreAsBefore(p)
         /\ result[p] = TEAM_NOT_FOUND <=> dto[p].id \notin DOMAIN pre[p].teams
         /\ dto[p].id \in DOMAIN pre[p].teams =>
              /\ result[p] = OK
              /\ ret[p].defined
              /\ ret[p].data.id = dto[p].id
              /\ ret[p].data.name = pre[p].teams[dto[p].id].name
              /\ ret[p].data.description = pre[p].teams[dto[p].id].description
              /\ {m.id : m \in ret[p].data.members}
                   = MemberIdsBefore(pre[p], dto[p].id)
    /\ Done(p, "findAll") =>
         /\ StoreAsBefore(p)
         /\ result[p] = OK
         /\ ret[p].defined
         /\ {t.id : t \in ret[p].data} = DOMAIN pre[p].teams
         /\ Cardinality(ret[p].data) = Cardinality(DOMAIN pre[p].teams)
         /\ \A t \in ret[p].data :
              /\ t.name = pre[p].teams[t.id].name
              /\ t.description = pre[p].teams[t.id].description
              /\ {m.id : m \in t.members} = MemberIdsBefore(pre[p], t.id)

\* C11 witness: a findOne of an unknown id has failed while a team with
\* members is stored.
C11_FoundAndMissed ==
  \E p \in Procs :
    /\ Done(p, "findOne") /\ result[p] = TEAM_NOT_FOUND
    /\ DOMAIN teams # {}
    /\ \E i \in DOMAIN teams : MembersOf(users, i) # {}

\* C12: with a free name and an existing admin, createTeam fails with
\* USER_NOT_FOUND if and only if some id of dto.members has no user row; a
\* list of existing users, also one that repeats an id, is not rejected.
C12_RejectedIffMemberMissing ==
  \A p \in Procs :
    /\ Done(p, "createTeam")
    /\ ~NameTaken(pre[p].teams, dto[p].name)
    /\ dto[p].super_admin_user_id \in DOMAIN pre[p].users
    => (result[p] = USER_NOT_FOUND
          <=> \E m \in Listed(p) : m \notin DOMAIN pre[p].users)

\* The teams a finished findOne or findAll handed to its caller.
Returned(p) ==
  IF result[p] # OK THEN {}
  ELSE IF op[p] = "findOne" THEN {ret[p].data}
  ELSE IF op[p] = "findAll" THEN ret[p].data
  ELSE {}

\* C13: a findOne or findAll that runs concurrently with a createTeam sees
\* either no trace of the new team or the new team with its admin and all
\* listed members attached under their new roles.
C13_ReadersSeeNoPartialCreate ==
  \A p, q \in Procs :
    p # q /\ pc[p] = "done" /\ op[q] = "createTeam" /\ savedTeam[q] # Null =>
      \A t \in Returned(p) :
        t.id = savedTeam[q] =>
          t.members =
            {[id |-> u,
              role |-> IF u = dto[q].super_admin_user_id
                       THEN EXTERNAL_SUPER_ADMIN ELSE EXTERNAL_MEMBER] :
               u \in {dto[q].super_admin_user_id} \cup Listed(q)}

\* The users deleteTeam's loop has yet to visit.
Unvisited(p) == {m.id : m \in members[p]}

\* C14: when a save of deleteTeam's detach loop fails, the team row still
\* exists, the members saved before the failure have team null, the
\* remaining members still reference the team, and nothing is rolled back.
C14_FailedDetachIsPartial ==
  \A p \in Procs :
    Done(p, "deleteTeam") /\ result[p] = DB_ERROR /\ members[p] # {} =>
      /\ teams = pre[p].teams
      /\ dto[p].id \in DOMAIN teams
      /\ \A u \in DOMAIN users :
           IF pre[p].users[u].team # dto[p].id THEN users[u] = pre[p].users[u]
           ELSE IF u \in Unvisited(p) THEN users[u].team = dto[p].id
           ELSE users[u].team = Null

\* C14 witness: the save of the second of two members has failed.
C14_FailedAtSecondMember ==
  \E p \in Procs :
    /\ Done(p, "deleteTeam") /\ result[p] = DB_ERROR
    /\ Cardinality(members[p]) = 1
    /\ \E u \in DOMAIN users :
         pre[p].users[u].team = dto[p].id /\ users[u].team = Null

\* No call is in progress.
Quiescent == \A p \in Procs : pc[p] \in {"idle", "done"}

\* C15: from tables in which no user is EXTERNAL_SUPER_ADMIN, after any
\* sequence of createTeam, updateTeam and deleteTeam calls every
\* EXTERNAL_SUPER_ADMIN user has a team reference that is not null and is the
\* id of an existing team.
C15_SuperAdminHasTeam ==
  Quiescent =>
    \A u \in DOMAIN users :
      users[u].role = EXTERNAL_SUPER_ADMIN =>
        users[u].team # Null /\ users[u].team \in DOMAIN teams

\* Two createTeam calls with different names and the same admin.
SameAdminCreates(p, q) ==
  /\ p # q
  /\ op[p] = "createTeam" /\ op[q] = "createTeam"
  /\ dto[p].name # dto[q].name
  /\ dto[p].super_admin_user_id = dto[q].super_admin_user_id

\* The call has saved its admin (line 71) and has not failed since.
PastAdminSave(p) ==
  \/ pc[p] \in {"c_saveMembers", "c_reread"}
  \/ pc[p] = "done" /\ result[p] = OK

\* The step is p's admin save of line 71, and it went through.
AdminSaveBy(p) ==
  pc[p] = "c_saveAdmin" /\ pc'[p] \in {"c_saveMembers", "c_reread"}

\* C16: when two concurrent createTeam calls with different free names and
\* the same admin both succeed, both team rows exist and the admin is
\* EXTERNAL_SUPER_ADMIN of exactly one of the two teams, the one written by
\* the later of the two admin saves: each admin save writes its own team, and
\* once both are done no step changes the admin's row.
C16_LaterAdminSaveWins ==
  [][\A p, q \in Procs :
       SameAdminCreates(p, q) =>
         LET a == dto[p].super_admin_user_id
         IN /\ AdminSaveBy(p) =>
                 users'[a] = [role |-> EXTERNAL_SUPER_ADMIN, team |-> savedTeam[p]]
            /\ PastAdminSave(p) /\ PastAdminSave(q) => users'[a] = users[a]
            /\ Done(p, "createTeam") /\ Done(q, "createTeam")
               /\ result[p] = OK /\ result[q] = OK =>
                 /\ {savedTeam[p], savedTeam[q]} \subseteq DOMAIN teams
                 /\ savedTeam[p] # savedTeam[q]
                 /\ users[a].role = EXTERNAL_SUPER_ADMIN
                 /\ users[a].team \in {savedTeam[p], savedTeam[q]}]_vars

\* The step is a save of deleteTeam's detach loop by p (lines 157-158).
DetachBy(p) ==
  pc[p] = "d_detach" /\ op[p] = "deleteTeam" /\ members'[p] # members[p]

\* C17: deleteTeam(T) clears the team reference only of users that belong to
\* T when the save is made: a user that a concurrent createTeam has moved to
\* another team is not reset to null.
C17_DetachOnlyOwnMembers ==
  [][\A p \in Procs :
       DetachBy(p) =>
         \A u \in DOMAIN users :
           users'[u].team # users[u].team => users[u].team = team[p].id]_vars

\* C18: after any sequence of completed createTeam, updateTeam and deleteTeam
\* calls, every user's team reference that is not null is the id of an
\* existing team row (checked whenever no call is in progress, whether or
\* not an earlier call failed).
C18_TeamReferencesResolve ==
  Quiescent =>
    \A u \in DOMAIN users :
      users[u].team # Null => users[u].team \in DOMAIN teams

\* C18 witness: a team with a member has been deleted while another user
\* belongs to a second team.
C18_DeletedBesideAnotherTeam ==
  \E p \in Procs :
    /\ Done(p, "deleteTeam") /\ result[p] = OK
    /\ \E u \in DOMAIN users : pre[p].users[u].team = dto[p].id
    /\ \E u \in DOMAIN users : users[u].team \in DOMAIN teams

\* C19: a successful createTeam changes only the new team row and the role
\* and team reference of its admin and listed members: every team row that
\* existed keeps its name and description, and every other user keeps its
\* role and team reference.
C19_CreateTouchesOnlyItsOwn ==
  \A p \in Procs :
    Done(p, "createTeam") /\ result[p] = OK =>
      /\ DOMAIN teams = DOMAIN pre[p].teams \cup {savedTeam[p]}
      /\ savedTeam[p] \notin DOMAIN pre[p].teams
      /\ \A i \in DOMAIN pre[p].teams : teams[i] = pre[p].teams[i]
      /\ \A u \in DOMAIN users \ ({dto[p].super_admin_user_id} \cup Listed(p)) :
           users[u] = pre[p].users[u]

\* C19 witness: a createTeam with a listed member has succeeded beside an
\* existing team, one of whose members it does not name.
C19_CreatedBesideOthers ==
  \E p \in Procs :
    /\ Done(p, "createTeam") /\ result[p] = OK
    /\ Listed(p) # {}
    /\ \E u \in DOMAIN users \ ({dto[p].super_admin_user_id} \cup Listed(p)) :
         pre[p].users[u].team \in DOMAIN pre[p].teams

====
